---- MODULE Spec2Model ----
(***************************************************************************)
(* Connection pool of lib/pool.js: the two arrays _pool (available) and    *)
(* _reserved, and the operations initialize, reserve, release and purge.   *)
(* A pooled record (connobj) is modelled by its identity: record i has     *)
(* uuid i.  The connection factory (dm.getConnection, dm.getConnectionSync) *)
(* and Connection.close are external: each call succeeds or fails.         *)
(***************************************************************************)
EXTENDS Integers, Sequences, FiniteSets

\* ---- bounds of the model
MaxConns == 2      \* records the factory may open in one run
MaxLen == 2        \* most entries release may leave in _pool and _reserved together
MaxTime == 2       \* last reading of the clock
MaxMin == 2        \* largest config.minpoolsize
MaxMax == 2        \* largest config.maxpoolsize
MaxIdleCfg == 1    \* largest config.maxidle

\* ---- values a caller can hand to release besides a pooled record
Bare == 0          \* an object with neither uuid nor conn, such as {}
Null == -1         \* null (typeof null === 'object')
NonObj == -2       \* a number, a string, undefined
Undefined == -1    \* a missing property (uuid, lastIdle)
NoConn == -3       \* no record returned

VARIABLES
  cfg,             \* the Pool's configuration fields, fixed by the constructor
  pool,            \* this._pool: the available records, front first
  reserved,        \* this._reserved: the reserved records, front first
  now,             \* new Date().getTime()
  lastIdle,        \* connobj.lastIdle of each record
  nextId,          \* the next uuid the factory hands out
  closeCalled,     \* records on whose conn the pool has called close
  handed,          \* values callers hold: every record reserve has returned
  init,            \* initialize in flight: the asyncjs.times batch
  prg,             \* purge in flight: the asyncjs.each over the closes
  phase,           \* what the pool has been through so far
  ret,             \* what the last operation reported to its caller
  timers,          \* records whose keepalive is a running setInterval
  held,            \* how many callers hold each record: reserved it and have
                   \* not released it since
  probe            \* the record whose connection keepalive queried last

vars == <<cfg, pool, reserved, now, lastIdle, nextId, closeCalled, handed,
          init, prg, phase, ret, timers, held, probe>>

\* what the pool's own operations neither read nor write
outside == <<held, probe>>

Ids == 1..MaxConns

\* ---- helpers over arrays
Range(s) == {s[i] : i \in 1..Len(s)}

Count(s, x) == Cardinality({i \in 1..Len(s) : s[i] = x})

Swap(array, i, j) ==
  [k \in 1..Len(array) |->
     IF k = i THEN array[j] ELSE IF k = j THEN array[i] ELSE array[k]]

\* shuffle(array), lines 301-311: for index from the last position down to the
\* second, swap with a random position at or before it.  The result is the set
\* of arrays the loop can leave.
RECURSIVE shuffleFrom(_, _)
shuffleFrom(array, index) ==
  IF index <= 1 THEN {array}
  ELSE UNION {shuffleFrom(Swap(array, index, randomPosition), index - 1) :
                randomPosition \in 1..index}

shuffle(array) == shuffleFrom(array, Len(array))

\* conn.uuid
uuidOf(conn) == IF conn \in Ids THEN conn ELSE Undefined

\* _.reject(array, conn => conn.uuid === uuid)
reject(array, uuid) == SelectSeq(array, LAMBDA conn : uuidOf(conn) # uuid)

\* conn.lastIdle < maxLastIdle, false when lastIdle is undefined
lastIdleBefore(conn, maxLastIdle) ==
  /\ conn \in Ids
  /\ lastIdle[conn] # Undefined
  /\ lastIdle[conn] < maxLastIdle

\* closeIdleConnectionsInArray(array, maxIdle), lines 236-255: the records it
\* closes and splices out
idleIn(array, maxIdle) ==
  {array[i] : i \in {j \in 1..Len(array) : lastIdleBefore(array[j], now - maxIdle)}}

closeIdleConnectionsInArray(array, maxIdle) ==
  SelectSeq(array, LAMBDA conn : ~lastIdleBefore(conn, now - maxIdle))

\* Pool(config), lines 88-95
minpoolsizeOf(config) == IF config.minpoolsize # 0 THEN config.minpoolsize ELSE 1
maxpoolsizeOf(config) == IF config.maxpoolsize # 0 THEN config.maxpoolsize ELSE 1
\* config.maxidle taken whether or not keepalive is enabled
maxidleWithKeepalive(config) == config.maxidle

maxidleOf(config) ==
  IF ~config.keepalive /\ config.maxidle # 0 THEN config.maxidle ELSE 0

Pool(config) ==
  [minpoolsize |-> minpoolsizeOf(config),
   maxpoolsize |-> maxpoolsizeOf(config),
   keepalive |-> config.keepalive,
   maxidle |-> maxidleOf(config),
   configMaxidle |-> config.maxidle]

Configs ==
  [minpoolsize : 0..MaxMin, maxpoolsize : 0..MaxMax,
   keepalive : BOOLEAN, maxidle : 0..MaxIdleCfg]

NoInit == [active |-> FALSE, left |-> 0, conns |-> <<>>]
NoPurge == [active |-> FALSE, left |-> 0, failed |-> FALSE]

\* What a call reported: the operation, how it ended, and the record it
\* returned (reserve) or was given (release).
Report(op, outcome, conn) == [op |-> op, outcome |-> outcome, conn |-> conn]

Init ==
  /\ cfg \in {Pool(config) : config \in Configs}
  /\ pool = <<>>
  /\ reserved = <<>>
  /\ now = 0
  /\ lastIdle = [i \in Ids |-> Undefined]
  /\ nextId = 1
  /\ closeCalled = {}
  /\ handed = {}
  /\ init = NoInit
  /\ prg = NoPurge
  /\ phase = "fresh"
  /\ ret = Report("none", "none", NoConn)
  /\ timers = {}
  /\ held = [c \in Ids |-> 0]
  /\ probe = NoConn

\* No asynchronous operation is between its call and its callback.
Quiet == ~init.active /\ ~prg.active


\* The clock advances.  It is read only when maxidle is set (lines 39, 56, 224),
\* which takes a configuration that names a maxidle.
Tick ==
  /\ cfg.configMaxidle # 0
  /\ now < MaxTime
  /\ now' = now + 1
  /\ UNCHANGED <<cfg, pool, reserved, lastIdle, nextId, closeCalled, handed,
                 init, prg, phase, ret, timers>>

\* addConnectionSync / addConnection, lines 33-41 and 50-58: the lastIdle of
\* the records uuid first..first+n-1 created now
stamped(first, n) ==
  [i \in Ids |->
     IF i >= first /\ i < first + n
       THEN (IF cfg.maxidle # 0 THEN now ELSE Undefined)
       ELSE lastIdle[i]]

\* lines 36 and 53: the running keepalive timers once the records uuid
\* first..first+n-1 are created; keepalive is false when ka.enabled is not set
scheduled(first, n) ==
  IF cfg.keepalive THEN timers \cup (first..(first + n - 1)) ELSE timers

\* the records first+n-1, ..., first: n records unshifted one by one (line 187)
unshifted(first, n) == [k \in 1..n |-> first + n - k]

\* _closeIdleConnections, lines 223-234
closeIdleConnections(array) ==
  IF cfg.maxidle = 0 THEN array
  ELSE closeIdleConnectionsInArray(array, cfg.maxidle)

idleConnections(array) ==
  IF cfg.maxidle = 0 THEN {} ELSE idleIn(array, cfg.maxidle)

\* a top-up that stops one record short of minpoolsize
topUpOneShort(array) ==
  IF cfg.minpoolsize - (Len(array) + Len(reserved)) - 1 > 0
    THEN cfg.minpoolsize - (Len(array) + Len(reserved)) - 1
    ELSE 0

\* line 183-184: the creations of the top-up
topUp(array) ==
  IF cfg.minpoolsize - (Len(array) + Len(reserved)) > 0
    THEN cfg.minpoolsize - (Len(array) + Len(reserved))
    ELSE 0

\* a bound checked one record too late
canGrowOffByOne == Len(reserved) <= cfg.maxpoolsize

\* line 202: room for one more reserved record
canGrow == Len(reserved) < cfg.maxpoolsize

\* the front record read and left in the array
shiftedKeepingFront(array) == array

\* line 194: what this._pool.shift() leaves of the array
shifted(array) == Tail(array)

\* ---- reserve, lines 175-221.  mixed is what shuffle leaves of _pool after the
\* eviction; failAt is the addConnectionSync call of this reserve on which
\* dm.getConnectionSync throws (0: none does).
reserve(mixed, failAt) ==
  LET times == topUp(mixed)
      thrown == failAt # 0 /\ failAt <= times
      made == IF thrown THEN failAt - 1 ELSE times
      topped == unshifted(nextId, made) \o mixed
  IN /\ mixed \in shuffle(closeIdleConnections(pool))
     /\ nextId + made - 1 <= MaxConns
     /\ closeCalled' = closeCalled \cup idleConnections(pool)
     /\ IF thrown
          THEN \* line 187 is outside the try: the exception leaves reserve
               /\ pool' = topped
               /\ reserved' = reserved
               /\ nextId' = nextId + made
               /\ lastIdle' = stamped(nextId, made)
               /\ handed' = handed
               /\ ret' = Report("reserve", "throw", NoConn)
          ELSE IF Len(topped) > 0
          THEN /\ pool' = shifted(topped)
               /\ reserved' = <<Head(topped)>> \o reserved
               /\ nextId' = nextId + made
               /\ lastIdle' = stamped(nextId, made)
               /\ handed' = handed \cup {Head(topped)}
               /\ ret' = Report("reserve", "conn", Head(topped))
          ELSE IF canGrow
          THEN IF failAt = 1
                 THEN /\ pool' = topped
                      /\ reserved' = reserved
                      /\ nextId' = nextId
                      /\ lastIdle' = lastIdle
                      /\ handed' = handed
                      /\ ret' = Report("reserve", "connerr", NoConn)
                 ELSE /\ nextId <= MaxConns
                      /\ pool' = topped
                      /\ reserved' = <<nextId>> \o reserved
                      /\ nextId' = nextId + 1
                      /\ lastIdle' = stamped(nextId, 1)
                      /\ handed' = handed \cup {nextId}
                      /\ ret' = Report("reserve", "conn", nextId)
          ELSE /\ pool' = topped
               /\ reserved' = reserved
               /\ nextId' = nextId
               /\ lastIdle' = lastIdle
               /\ handed' = handed
               /\ ret' = Report("reserve", "exhausted", NoConn)
     /\ timers' = scheduled(nextId, nextId' - nextId)
     /\ phase' = IF phase = "initialized" /\ ret'.outcome \in {"conn", "exhausted"}
                   THEN "initialized" ELSE "other"
     /\ UNCHANGED <<cfg, now, init, prg>>

\* ---- release, lines 257-275
release(conn) ==
  /\ IF conn = NonObj
       THEN /\ UNCHANGED <<pool, reserved>>
            /\ ret' = Report("release", "invalid", conn)
       ELSE IF conn = Null
       THEN \* typeof null === 'object': reading conn.uuid throws a TypeError
            /\ UNCHANGED <<pool, reserved>>
            /\ ret' = Report("release", "throw", conn)
       ELSE /\ Len(pool) + Len(reject(reserved, uuidOf(conn))) < MaxLen
            /\ reserved' = reject(reserved, uuidOf(conn))
            /\ pool' = <<conn>> \o pool
            /\ ret' = Report("release",
                             IF conn \in Range(reserved) THEN "ok" ELSE "ok-absent",
                             conn)
  /\ phase' = "other"
  /\ UNCHANGED <<cfg, now, lastIdle, nextId, closeCalled, handed, init, prg, timers>>

\* what a caller can pass to release: a record reserve gave it, or a value of
\* its own
Releasable == handed \cup {Bare, Null, NonObj}

\* ---- initialize, lines 148-173.  driver: no drivername configured ("none"),
\* a driver that registers ("ok"), or one whose newInstance or registerDriver
\* reports an error ("fail").  Otherwise _addConnectionsOnInitialize starts
\* the batch of asyncjs.times.
initialize(driver) ==
  /\ init = NoInit
  /\ IF driver = "fail"
       THEN /\ init' = init
            /\ ret' = Report("initialize", "error", NoConn)
            /\ phase' = IF phase = "fresh" THEN "failed" ELSE "other"
       ELSE /\ init' = [active |-> TRUE, left |-> cfg.minpoolsize,
                        conns |-> [n \in 1..cfg.minpoolsize |-> NoConn]]
            /\ ret' = ret
            /\ phase' = IF phase = "fresh" THEN "initializing" ELSE "other"
  /\ UNCHANGED <<cfg, pool, reserved, now, lastIdle, nextId, closeCalled, handed, prg,
                 timers>>

\* every record the batch has so far, pushed whether or not the batch is complete
pushedAsCreated(conns, complete) == pool \o SelectSeq(conns, LAMBDA c : c \in Ids)

\* lines 136-144: _pool once a creation of the batch has returned; the records
\* are pushed, in batch order, only by the final callback of a batch in which
\* every creation succeeded
pushed(conns, complete) == IF complete THEN pool \o conns ELSE pool

\* _addConnectionsOnInitialize, lines 130-146, with addConnection, lines 28-46:
\* dm.getConnection calls back for the n-th creation of the batch.  asyncjs.times
\* reports the first error at once and drops what the batch returns after it.
addConnectionsOnInitialize(n, err) ==
  /\ init.left > 0
  /\ n \in 1..Len(init.conns)
  /\ init.conns[n] = NoConn
  /\ IF err
       THEN /\ init' = IF init.left = 1 THEN NoInit
                       ELSE [init EXCEPT !.left = @ - 1, !.conns[n] = Undefined,
                                         !.active = FALSE]
            /\ ret' = IF init.active THEN Report("initialize", "error", NoConn) ELSE ret
            /\ phase' = IF phase = "initializing" THEN "failed" ELSE phase
            /\ UNCHANGED <<pool, nextId, lastIdle, timers>>
       ELSE /\ nextId <= MaxConns
            /\ nextId' = nextId + 1
            /\ lastIdle' = stamped(nextId, 1)
            /\ timers' = scheduled(nextId, 1)
            /\ pool' = pushed([init.conns EXCEPT ![n] = nextId],
                               init.left = 1 /\ init.active)
            /\ IF init.left = 1 /\ init.active
                 THEN \* every creation succeeded
                      /\ init' = NoInit
                      /\ ret' = Report("initialize", "ok", NoConn)
                      /\ phase' = IF phase = "initializing" THEN "initialized" ELSE phase
                 ELSE /\ init' = IF init.left = 1 THEN NoInit
                                 ELSE [init EXCEPT !.left = @ - 1, !.conns[n] = nextId]
                      /\ UNCHANGED <<ret, phase>>
  /\ UNCHANGED <<cfg, reserved, now, closeCalled, handed, prg>>

\* ---- purge, lines 277-299.  asyncjs.each calls the iteratee on every element
\* of conns in turn; on an element without a conn property conn.conn.close
\* throws a TypeError that leaves purge with the later elements untouched.
firstBare(conns) ==
  IF Bare \in Range(conns)
    THEN CHOOSE i \in 1..Len(conns) :
           conns[i] = Bare /\ \A j \in 1..(i - 1) : conns[j] # Bare
    ELSE Len(conns) + 1

purge ==
  LET conns == pool \o reserved
      started == {conns[i] : i \in 1..(firstBare(conns) - 1)}
  IN /\ ~prg.active
     /\ closeCalled' = closeCalled \cup started
     /\ IF Bare \in Range(conns)
          THEN /\ UNCHANGED <<pool, reserved, prg>>
               /\ ret' = Report("purge", "throw", NoConn)
          ELSE IF Len(conns) = 0
          THEN /\ pool' = <<>>
               /\ reserved' = <<>>
               /\ prg' = NoPurge
               /\ ret' = Report("purge", "ok", NoConn)
          ELSE /\ UNCHANGED <<pool, reserved, ret>>
               /\ prg' = [active |-> TRUE, left |-> Len(conns), failed |-> FALSE]
     /\ phase' = "other"
     /\ UNCHANGED <<cfg, now, lastIdle, nextId, handed, init, timers>>

\* lines 284-287 and 292-297: a close of the purge calls back, with or without an
\* error; the last one resets both arrays and calls purge's callback.
purgeClosed(err) ==
  /\ prg.active
  /\ IF prg.left = 1
       THEN /\ pool' = <<>>
            /\ reserved' = <<>>
            /\ prg' = NoPurge
            /\ ret' = Report("purge", IF prg.failed \/ err THEN "ok-failed" ELSE "ok", NoConn)
       ELSE /\ prg' = [prg EXCEPT !.left = @ - 1, !.failed = @ \/ err]
            /\ UNCHANGED <<pool, reserved, ret>>
  /\ UNCHANGED <<cfg, now, lastIdle, nextId, closeCalled, handed, init, phase, timers>>

\* Calls that each run to completion before the next one starts.
Next ==
  \/ (Tick /\ UNCHANGED outside)
  \/ \E failAt \in 0..MaxMin : \E mixed \in shuffle(closeIdleConnections(pool)) :
       Quiet /\ reserve(mixed, failAt) /\ UNCHANGED outside
  \/ \E conn \in Releasable : Quiet /\ release(conn) /\ UNCHANGED outside
  \/ \E driver \in {"none", "ok", "fail"} :
       Quiet /\ initialize(driver) /\ UNCHANGED outside
  \/ \E n \in 1..MaxMin, err \in BOOLEAN :
       addConnectionsOnInitialize(n, err) /\ UNCHANGED outside
  \/ (Quiet /\ purge /\ UNCHANGED outside)
  \/ \E err \in BOOLEAN : purgeClosed(err) /\ UNCHANGED outside

Spec == Init /\ [][Next]_vars

\* A fresh pool that is initialized once and then only asked for connections:
\* initialize, the creations of its batch, and the reserve calls after it.
NextFresh ==
  \/ (Tick /\ UNCHANGED outside)
  \/ \E driver \in {"none", "ok", "fail"} :
       phase = "fresh" /\ Quiet /\ initialize(driver) /\ UNCHANGED outside
  \/ \E n \in 1..MaxMin, err \in BOOLEAN :
       addConnectionsOnInitialize(n, err) /\ UNCHANGED outside
  \/ \E failAt \in 0..MaxMin : \E mixed \in shuffle(closeIdleConnections(pool)) :
       phase = "initialized" /\ Quiet /\ reserve(mixed, failAt) /\ UNCHANGED outside

SpecFresh == Init /\ [][NextFresh]_vars

\* the callers' holdings once a reserve has reported
holding(report) ==
  IF report.op = "reserve" /\ report.outcome = "conn" /\ report.conn \in Ids
    THEN [held EXCEPT ![report.conn] = @ + 1]
    ELSE held

\* Callers that release only a record they hold, once for each reserve that
\* returned it.  The calls of reserve, release, initialize and purge and the
\* callbacks of the creations and closes in flight interleave in any order.
NextCallers ==
  \/ (Tick /\ UNCHANGED outside)
  \/ \E failAt \in 0..MaxMin : \E mixed \in shuffle(closeIdleConnections(pool)) :
       reserve(mixed, failAt) /\ held' = holding(ret') /\ UNCHANGED probe
  \/ \E conn \in Ids :
       /\ held[conn] > 0
       /\ release(conn)
       /\ held' = [held EXCEPT ![conn] = @ - 1]
       /\ UNCHANGED probe
  \/ \E driver \in {"none", "ok", "fail"} : initialize(driver) /\ UNCHANGED outside
  \/ \E n \in 1..MaxMin, err \in BOOLEAN :
       addConnectionsOnInitialize(n, err) /\ UNCHANGED outside
  \/ (purge /\ UNCHANGED outside)
  \/ \E err \in BOOLEAN : purgeClosed(err) /\ UNCHANGED outside

SpecCallers == Init /\ [][NextCallers]_vars

\* ---- keepalive, lines 17-26: the setInterval of a record fires and queries
\* its connection.  Nothing in lib/pool.js calls clearInterval.
keepalive(conn) ==
  /\ conn \in timers
  /\ probe' = conn
  /\ UNCHANGED <<cfg, pool, reserved, now, lastIdle, nextId, closeCalled, handed,
                 init, prg, phase, ret, timers, held>>

\* Pools on which no idle eviction is in effect (keepalive enabled, or no
\* maxidle), the interleaved calls of their callers, and their keepalive timers.
InitKeepalive == Init /\ (cfg.keepalive \/ cfg.maxidle = 0)

NextKeepalive ==
  \/ NextCallers
  \/ \E conn \in Ids : keepalive(conn)

SpecKeepalive == InitKeepalive /\ [][NextKeepalive]_vars

\* A fresh pool on which initialize is called once, and reserve at any time
\* from then on, also while the batch of initialize is pending.
NextStartup ==
  \/ (Tick /\ UNCHANGED outside)
  \/ \E driver \in {"none", "ok", "fail"} :
       phase = "fresh" /\ initialize(driver) /\ UNCHANGED outside
  \/ \E n \in 1..MaxMin, err \in BOOLEAN :
       addConnectionsOnInitialize(n, err) /\ UNCHANGED outside
  \/ \E failAt \in 0..MaxMin : \E mixed \in shuffle(closeIdleConnections(pool)) :
       phase # "fresh" /\ reserve(mixed, failAt) /\ UNCHANGED outside

SpecStartup == Init /\ [][NextStartup]_vars

\* ---------------------------------------------------------------------------
\* Properties

\* how often record c occurs in the two arrays together
Occurrences(c) == Count(pool, c) + Count(reserved, c)

\* C1: whatever reserve and release calls are made, no uuid is in _pool and in
\* _reserved at once, and none occurs twice within either array.
C1_IdentityOnce == \A c \in Ids : Occurrences(c) <= 1

\* C2: with minpoolsize <= maxpoolsize and every call run to completion before
\* the next, _reserved never holds more than maxpoolsize records (counted here
\* as the distinct pooled records in it, which |_reserved| is never below).
C2_ReservedWithinMax ==
  (cfg.minpoolsize <= cfg.maxpoolsize /\ Quiet)
    => Cardinality(Range(reserved) \cap Ids) <= cfg.maxpoolsize

\* C3: on a pool that initialize has just filled (minpoolsize <= maxpoolsize),
\* with a factory that does not fail and no release in between, a reserve
\* returns a record and lengthens _reserved by one as long as _reserved holds
\* fewer than maxpoolsize records (so the first maxpoolsize calls succeed, and
\* the pool then holds maxpoolsize records, all reserved); the call after that
\* reports "No more pool connections available" and creates nothing.
C3_ReserveUpToMax ==
  [][\A mixed \in shuffle(closeIdleConnections(pool)) :
       (/\ phase = "initialized"
        /\ cfg.minpoolsize <= cfg.maxpoolsize
        /\ Quiet
        /\ reserve(mixed, 0))
       => /\ Len(pool) + Len(reserved) <= cfg.maxpoolsize
          /\ IF Len(reserved) < cfg.maxpoolsize
               THEN /\ ret'.outcome = "conn"
                    /\ ret'.conn \in Ids
                    /\ reserved' = <<ret'.conn>> \o reserved
                    /\ Len(reserved') = cfg.maxpoolsize => pool' = <<>>
               ELSE /\ ret'.outcome = "exhausted"
                    /\ nextId' = nextId
                    /\ pool' = <<>>
                    /\ reserved' = reserved]_vars

\* C3 witness: after initialize the pool has grown beyond minpoolsize, every
\* record is reserved, and the next reserve has been refused.
C3_Witness ==
  /\ phase = "initialized"
  /\ cfg.minpoolsize < cfg.maxpoolsize
  /\ ret = Report("reserve", "exhausted", NoConn)
  /\ Len(reserved) = cfg.maxpoolsize
  /\ pool = <<>>

\* C4: purge always ends with _pool and _reserved empty, whatever the closes
\* report, and every record that was in either array when purge was called has
\* had close called on it.
C4_PurgeEmptiesAndCloses ==
  [][/\ (Quiet /\ purge) =>
          \A c \in Range(pool \o reserved) : c \in Ids => c \in closeCalled'
     /\ (ret'.op = "purge" /\ (purge \/ \E err \in BOOLEAN : purgeClosed(err)))
          => (pool' = <<>> /\ reserved' = <<>>)]_vars

\* C5: release of a value that is no object with a uuid (a non-object, null, an
\* object without uuid) reports the invalid-connection error to the callback
\* and leaves _pool and _reserved as they were.
C5_ReleaseRejectsInvalid ==
  [][\A conn \in {Bare, Null, NonObj} :
       (Quiet /\ release(conn))
       => (ret'.outcome = "invalid" /\ pool' = pool /\ reserved' = reserved)]_vars

\* the records of array whose lastIdle is strictly before now - maxidle
Stale(array) == {c \in Range(array) : lastIdleBefore(c, now - cfg.maxidle)}

\* C6: release(c) of a record c in _reserved takes c out of _reserved and puts
\* it at the front of _pool, and the reserve that follows it (nothing called
\* in between, the shuffle leaving the order alone) returns that same c.
C6_ReleaseThenReserve ==
  [][/\ \A c \in Ids :
          (Quiet /\ c \in Range(reserved) /\ release(c))
          => (c \notin Range(reserved') /\ pool' = <<c>> \o pool)
     /\ (/\ Quiet
         /\ ret.op = "release" /\ ret.outcome = "ok" /\ ret.conn \in Ids
         /\ reserve(closeIdleConnections(pool), 0))
          => (ret'.outcome = "conn" /\ ret'.conn = ret.conn)]_vars

\* C7: with maxidle set, a reserve closes and takes out of _pool exactly the
\* records whose lastIdle is strictly before now - maxidle, keeps every other
\* record of _pool, and neither closes nor removes a record of _reserved.
C7_EvictsExactlyIdle ==
  [][\A failAt \in 0..MaxMin : \A mixed \in shuffle(closeIdleConnections(pool)) :
       (cfg.maxidle # 0 /\ Quiet /\ reserve(mixed, failAt))
       => /\ closeCalled' \ closeCalled \subseteq Stale(pool)
          /\ \A c \in Stale(pool) : c \in closeCalled' /\ c \notin Range(pool')
          /\ \A c \in Range(pool) \ Stale(pool) :
               c \in Range(pool') \/ (ret'.outcome = "conn" /\ ret'.conn = c)
          /\ \A c \in Range(reserved) :
               /\ c \in Range(reserved')
               /\ c \in closeCalled' => c \in closeCalled]_vars

\* C8: no record of _pool or _reserved wraps a connection the pool has closed,
\* by purge or by eviction, also after a caller releases a record it reserved
\* before a purge.
C8_NoClosedRecord ==
  Quiet => \A c \in Range(pool \o reserved) : c \notin closeCalled

\* C9: when the factory fails while reserve creates a connection, reserve
\* reports the connection error and leaves _pool and _reserved as they were
\* when it was called.
C9_FailedReserveChangesNothing ==
  [][\A failAt \in 1..MaxMin : \A mixed \in shuffle(closeIdleConnections(pool)) :
       (/\ cfg.minpoolsize <= cfg.maxpoolsize
        /\ Quiet
        /\ reserve(mixed, failAt)
        /\ ret'.outcome \in {"connerr", "throw"})
       => (pool' = pool /\ reserved' = reserved)]_vars

\* C10: initialize on a fresh pool is all or nothing: when its callback
\* reports success _pool holds minpoolsize records and _reserved none; when it
\* reports an error both are empty; and while the batch is pending no part of
\* it is in the pool.
C10_InitializeAllOrNothing ==
  /\ (phase = "initialized" /\ ret.op = "initialize")
       => /\ ret.outcome = "ok"
          /\ Len(pool) = cfg.minpoolsize
          /\ Range(pool) \subseteq Ids
          /\ reserved = <<>>
  /\ phase = "failed"
       => /\ ret = Report("initialize", "error", NoConn)
          /\ pool = <<>>
          /\ reserved = <<>>
  /\ phase = "initializing" => (pool = <<>> /\ reserved = <<>>)

\* C10 witness: initialize on a fresh pool has reported an error after the
\* factory had opened a connection of the batch.
C10_Witness ==
  /\ phase = "failed"
  /\ ret = Report("initialize", "error", NoConn)
  /\ nextId > 1

\* the records the factory has opened so far
opened == 1..(nextId - 1)

\* C11: when initialize reports an error because a creation of its batch
\* failed, every connection the factory opened for that batch has been closed
\* by the pool or is in _pool or _reserved, where purge can close it.
C11_FailedBatchLeaksNothing ==
  phase = "failed"
    => \A c \in opened : c \in closeCalled \/ c \in Range(pool \o reserved)

\* C12: release(c) of a record c that is not in _reserved (released already,
\* or dropped by a purge) calls back without an error and leaves _pool and
\* _reserved as they were.
C12_ReleaseOfAbsentIsNoOp ==
  [][\A c \in Ids :
       (Quiet /\ c \notin Range(reserved) /\ release(c))
       => (/\ ret'.outcome \in {"ok", "ok-absent"}
           /\ pool' = pool
           /\ reserved' = reserved)]_vars

\* C13: with maxidle set, release(c) stamps lastIdle of c with the current
\* time as c enters _pool, so that a reserve at a time less than maxidle after
\* the release does not find c idle.
C13_ReleaseStampsLastIdle ==
  [][\A c \in Ids :
       (cfg.maxidle # 0 /\ Quiet /\ c \in Range(reserved) /\ release(c))
       => (/\ lastIdle'[c] = now
           /\ \A t \in now..MaxTime :
                t - now < cfg.maxidle => ~(lastIdle'[c] < t - cfg.maxidle))]_vars

\* C14: a reserve that returns a record, with a factory that does not fail,
\* leaves at least minpoolsize entries in _pool and _reserved together,
\* whatever eviction or purge removed before.  When the entries left after the
\* eviction are fewer than minpoolsize the top-up creates exactly the missing
\* number, puts them into _pool, and the record served is taken from them;
\* otherwise the top-up creates nothing (the only record such a reserve can
\* create is the one of the grow step, which never enters _pool).
C14_SoftFloor ==
  [][\A mixed \in shuffle(closeIdleConnections(pool)) :
       (ret'.outcome = "conn" /\ reserve(mixed, 0))
       => LET missing == cfg.minpoolsize
                           - (Len(closeIdleConnections(pool)) + Len(reserved))
              created == nextId..(nextId' - 1)
          IN /\ Len(pool') + Len(reserved') >= cfg.minpoolsize
             /\ IF missing > 0
                  THEN /\ Cardinality(created) = missing
                       /\ ret'.conn \in created
                       /\ created \ {ret'.conn} \subseteq Range(pool')
                       /\ Len(pool') + Len(reserved') = cfg.minpoolsize
                  ELSE /\ Cardinality(created) <= 1
                       /\ created \cap Range(pool') = {}
                       /\ Len(pool') + Len(reserved')
                            = Len(closeIdleConnections(pool)) + Len(reserved)
                                + Cardinality(created)]_vars

\* C14 witness: after a purge or an eviction has closed a record and taken it
\* out, a reserve has created a new record and served it, which restores
\* minpoolsize.
C14_Witness ==
  /\ closeCalled # {}
  /\ ret.op = "reserve" /\ ret.outcome = "conn"
  /\ ret.conn = nextId - 1
  /\ ret.conn \notin closeCalled
  /\ Len(pool) + Len(reserved) = cfg.minpoolsize

\* C15: every record the factory has created carries a running keepalive
\* timer exactly when keepalive is enabled; and on a pool with keepalive
\* enabled no reserve evicts: whatever maxidle the configuration names, the
\* eviction that opens every reserve finds no record of _pool to close and
\* leaves _pool as it is.
C15_KeepaliveExcludesEviction ==
  /\ \A c \in opened : c \in timers <=> cfg.keepalive
  /\ cfg.keepalive =>
       /\ idleConnections(pool) = {}
       /\ closeIdleConnections(pool) = pool

\* C15 witness: a pool configured with keepalive and with maxidle has created
\* two records, each with its timer; the timer of the one left in _pool has
\* fired, and a reserve more than maxidle later has served that record with
\* nothing closed.
C15_Witness ==
  /\ cfg.keepalive /\ cfg.configMaxidle # 0
  /\ now > cfg.configMaxidle
  /\ timers = {1, 2}
  /\ probe = 1
  /\ ret = Report("reserve", "conn", 1)
  /\ reserved = <<1, 2>>
  /\ closeCalled = {}

\* C16: once the pool has closed the connection of a record, by purge or by
\* eviction, the keepalive timer of that record is cancelled: it never fires
\* against the closed connection.
C16_NoProbeAfterClose ==
  [][\A conn \in Ids : keepalive(conn) => conn \notin closeCalled]_vars

\* C17: when callers release only a record they hold, once for each reserve
\* that returned it, no record is held by two callers at once, however the
\* calls of initialize, reserve, release and purge, the evictions and the
\* callbacks in flight interleave.
C17_ExclusiveCheckout == \A c \in Ids : held[c] <= 1

\* C17 witness: two callers hold one record each; the record served last had
\* been closed by a purge while a caller held it, was released afterwards and
\* has now been served again.
C17_Witness ==
  /\ held[1] = 1 /\ held[2] = 1
  /\ ret = Report("reserve", "conn", 1)
  /\ 1 \in closeCalled
  /\ reserved = <<1>>
  /\ ~prg.active

\* C18: every reserve reports through its callback, a record, the error "No
\* more pool connections available" or the error of the factory, and no
\* failure of the factory leaves reserve as an exception, in the top-up as in
\* the grow step.
C18_ReserveAlwaysCallsBack ==
  [][\A failAt \in 0..MaxMin : \A mixed \in shuffle(closeIdleConnections(pool)) :
       (Quiet /\ reserve(mixed, failAt))
       => ret'.outcome \in {"conn", "exhausted", "connerr"}]_vars

\* C19: when the last close of a purge calls back and purge resets the two
\* arrays, close has been called on every record the reset drops that a
\* reserve has served, also on one a reserve created or served after the
\* purge had started its closes.
C19_ResetDropsOnlyClosed ==
  [][\A err \in BOOLEAN :
       (prg.left = 1 /\ purgeClosed(err))
       => \A c \in Range(pool \o reserved) : c \in handed => c \in closeCalled]_vars

\* C20: with minpoolsize <= maxpoolsize, when reserve is called while the
\* batch of initialize is pending, _pool and _reserved together hold at most
\* maxpoolsize records once initialize has reported success, and _reserved
\* never holds more than maxpoolsize afterwards.
C20_StartupWithinMax ==
  cfg.minpoolsize <= cfg.maxpoolsize
    => /\ ret = Report("initialize", "ok", NoConn)
            => Len(pool) + Len(reserved) <= cfg.maxpoolsize
       /\ ~init.active => Len(reserved) <= cfg.maxpoolsize

====
